---- MODULE Spec2Model ----
(***************************************************************************)
(* Model of the SCIENT gateway (src/app.py): the start-up BLE scan, the    *)
(* polling loop of run(), the per-device session read_characteristics,     *)
(* the payload slicing and extract_values, and the relay                   *)
(* make_post_api_call.                                                     *)
(*                                                                         *)
(* Text is modelled as a sequence of one-character strings.  A byte value  *)
(* read from a characteristic is a sequence of bytes; the byte 10 is       *)
(* written "NL" and the byte 0 is written "NUL", every other byte is the   *)
(* printable character it stands for.                                      *)
(*                                                                         *)
(* Not modelled (external collaborators, taken as non-raising): psutil,    *)
(* gpiozero, the geocoder and the console output.                          *)
(***************************************************************************)
EXTENDS Integers, Sequences, FiniteSets, TLC

\* ------------------------------------------------------------------------
\* Bounds of the model
\* ------------------------------------------------------------------------

\* the number of iterations of the polling loop that are explored
MaxCycles == 2

\* the number of relay deliveries the environment lets fail in one run
MaxRelayFailures == 2

\* the length of the longest token of a formatted payload
MaxTokenLen == 2

\* ------------------------------------------------------------------------
\* Program constants
\* ------------------------------------------------------------------------

\* run(): target_name = "Scient BLE Node"
target_name == "Scient BLE Node"

env_api_url == "insertEnvMetrics"

dev_api_url == "insertDeviceMetrics"

\* the position of the characteristic that read_characteristics reads
CharIndex == 6

\* the status code make_post_api_call takes for a success
StatusOK == 200

\* Python's None, as returned by read_characteristics on its failure paths.
\* A reading is a 5-element list, so the empty tuple never is a reading.
None == <<>>

\* ------------------------------------------------------------------------
\* Python text primitives used by read_characteristics and extract_values
\* ------------------------------------------------------------------------

\* the text Python writes for one byte inside the repr of a bytes object
EscByte(b) ==
    IF b = "NL" THEN <<"\\", "n">>
    ELSE IF b = "NUL" THEN <<"\\", "x", "0", "0">>
    ELSE IF b = "\\" THEN <<"\\", "\\">>
    ELSE <<b>>

RECURSIVE EscBytes(_)
EscBytes(bs) ==
    IF bs = <<>> THEN <<>> ELSE EscByte(Head(bs)) \o EscBytes(Tail(bs))

\* f"{value}" of a bytes object: b'...'
BytesRepr(bs) == <<"b", "'">> \o EscBytes(bs) \o <<"'">>

\* str.find(c): the 0-based index of the first c, or -1
RECURSIVE FindFrom(_, _, _)
FindFrom(s, c, i) ==
    IF i > Len(s) THEN -1
    ELSE IF s[i] = c THEN i - 1
    ELSE FindFrom(s, c, i + 1)

Find(s, c) == FindFrom(s, c, 1)

\* s[lo:hi] with Python's treatment of negative and out-of-range indices
PySlice(s, lo, hi) ==
    LET n   == Len(s)
        nlo == IF lo < 0 THEN (IF lo + n < 0 THEN 0 ELSE lo + n)
                         ELSE (IF lo > n THEN n ELSE lo)
        nhi == IF hi < 0 THEN (IF hi + n < 0 THEN 0 ELSE hi + n)
                         ELSE (IF hi > n THEN n ELSE hi)
    IN  IF nlo >= nhi THEN <<>> ELSE SubSeq(s, nlo + 1, nhi)

\* str.replace(<<a, b>>, ""): every non-overlapping occurrence, left to right
RECURSIVE RemoveLabel(_, _, _)
RemoveLabel(s, a, b) ==
    IF Len(s) < 2 THEN s
    ELSE IF s[1] = a /\ s[2] = b THEN RemoveLabel(Tail(Tail(s)), a, b)
    ELSE <<Head(s)>> \o RemoveLabel(Tail(s), a, b)

\* str.split(sep): always at least one part, empty parts are kept
RECURSIVE SplitAcc(_, _, _)
SplitAcc(s, sep, cur) ==
    IF s = <<>> THEN <<cur>>
    ELSE IF Head(s) = sep THEN <<cur>> \o SplitAcc(Tail(s), sep, <<>>)
    ELSE SplitAcc(Tail(s), sep, Append(cur, Head(s)))

Split(s, sep) == SplitAcc(s, sep, <<>>)

IsSpace(c) == c = " "

RECURSIVE LStrip(_)
LStrip(s) ==
    IF s = <<>> THEN s
    ELSE IF IsSpace(Head(s)) THEN LStrip(Tail(s))
    ELSE s

RECURSIVE RStrip(_)
RStrip(s) ==
    IF s = <<>> THEN s
    ELSE IF IsSpace(s[Len(s)]) THEN RStrip(SubSeq(s, 1, Len(s) - 1))
    ELSE s

\* str.strip()
Strip(s) == RStrip(LStrip(s))

RECURSIVE StripNonEmpty(_)
StripNonEmpty(parts) ==
    IF parts = <<>> THEN <<>>
    ELSE IF Strip(Head(parts)) # <<>>
         THEN <<Strip(Head(parts))>> \o StripNonEmpty(Tail(parts))
         ELSE StripNonEmpty(Tail(parts))

\* extract_values with the replace of the label "G:" left out
extract_values_keepG(data_str) ==
    LET parts == Split(RemoveLabel(RemoveLabel(RemoveLabel(
                     data_str, "T", ":"), "P", ":"), "H", ":"), ";")
    IN  StripNonEmpty(parts)

\* extract_values(data_str)
extract_values(data_str) ==
    LET parts == Split(RemoveLabel(RemoveLabel(RemoveLabel(RemoveLabel(
                     data_str, "T", ":"), "P", ":"), "H", ":"), "G", ":"), ";")
    IN  StripNonEmpty(parts)

\* the slicing with the start one place too early: the opening quote of the
\* bytes text stays in front of the payload
SlicePayload_keepQuote(raw) ==
    LET str_data       == BytesRepr(raw)
        new_line_index == Find(str_data, "n")
    IN  PySlice(str_data, 1, new_line_index - 1)

\* read_characteristics, lines 93-96: the text handed to extract_values
SlicePayload(raw) ==
    LET str_data       == BytesRepr(raw)
        new_line_index == Find(str_data, "n")
    IN  PySlice(str_data, 2, new_line_index - 1)


\* ------------------------------------------------------------------------
\* The environment: what the radio and the devices can answer
\* ------------------------------------------------------------------------

\* a well-formed payload: four labelled fields and a newline
PGood ==
    <<"T", ":", "2", "4", ".", "5", ";", "P", ":", "1", "0", "1", "3", ";",
      "H", ":", "6", "0", ";", "G", ":", "1", "2", "0", ";", "NL">>

\* a second well-formed payload with other values
PGoodB ==
    <<"T", ":", "1", "9", ";", "P", ":", "9", "9", "0", ";", "H", ":", "4",
      "1", ";", "G", ":", "7", "7", ";", "NL">>

\* a payload with the G field missing: three tokens
PShort ==
    <<"T", ":", "2", "4", ".", "5", ";", "P", ":", "1", "0", "1", "3", ";",
      "H", ":", "6", "0", ";", "NL">>

\* a payload with a fifth field
PLong ==
    <<"T", ":", "2", "4", ".", "5", ";", "P", ":", "1", "0", "1", "3", ";",
      "H", ":", "6", "0", ";", "G", ":", "1", "2", "0", ";", "X", ":", "7",
      ";", "NL">>

\* a payload without the trailing newline
PNoNL ==
    <<"T", ":", "2", "4", ".", "5", ";", "P", ":", "1", "0", "1", "3", ";",
      "H", ":", "6", "0", ";", "G", ":", "1", "2", "0", ";">>

\* a value whose first byte is zero
PNull ==
    <<"NUL">>

\* a value whose first byte is zero, followed by four fields
PNullGood ==
    <<"NUL", "T", ":", "2", "4", ".", "5", ";", "P", ":", "1", "0", "1",
      "3", ";", "H", ":", "6", "0", ";", "G", ":", "1", "2", "0", ";", "NL">>

\* an empty value
PEmpty == <<>>

\* a payload with four fields of which the first has no label
PNoLabel ==
    <<"2", "4", ".", "5", ";", "P", ":", "1", "0", "1", "3", ";",
      "H", ":", "6", "0", ";", "G", ":", "1", "2", "0", ";", "NL">>


\* what one advertising device looks like to Scanner.scan: its address, its
\* address type and its advertisement fields (adtype, desc, value)
DevA ==
    [addr |-> "A", addrType |-> "public",
     scanData |-> << <<1, "Flags", "06">>,
                     <<9, "Complete Local Name", target_name>> >>]

DevB ==
    [addr |-> "B", addrType |-> "random",
     scanData |-> << <<9, "Complete Local Name", target_name>> >>]

\* a device with another name
DevX ==
    [addr |-> "X", addrType |-> "public",
     scanData |-> << <<9, "Complete Local Name", "Other Node">> >>]

\* a device that carries the target name in its short name only
DevS ==
    [addr |-> "S", addrType |-> "random",
     scanData |-> << <<8, "Short Local Name", target_name>> >>]

\* Scanner.scan and getScanData are bluepy's: the scanner keeps one entry
\* per address and an entry keeps one field per adtype, the last one
\* received.  PutField stores one received field in the fields of an entry.
PutField(data, f) ==
    IF \E k \in 1..Len(data) : data[k][1] = f[1]
    THEN [k \in 1..Len(data) |-> IF data[k][1] = f[1] THEN f ELSE data[k]]
    ELSE Append(data, f)

RECURSIVE PutFields(_, _)
PutFields(data, fs) ==
    IF fs = <<>> THEN data
    ELSE PutFields(PutField(data, Head(fs)), Tail(fs))

\* one received advertisement report is merged into the entries
PutReport(devs, rep) ==
    IF \E k \in 1..Len(devs) : devs[k].addr = rep.addr
    THEN [k \in 1..Len(devs) |->
            IF devs[k].addr = rep.addr
            THEN [addr |-> rep.addr, addrType |-> rep.addrType,
                  scanData |-> PutFields(devs[k].scanData, rep.fields)]
            ELSE devs[k]]
    ELSE Append(devs, [addr |-> rep.addr, addrType |-> rep.addrType,
                       scanData |-> PutFields(<<>>, rep.fields)])

\* the entries Scanner.scan returns for the reports received in the window
RECURSIVE ScanEntriesFrom(_, _)
ScanEntriesFrom(devs, reports) ==
    IF reports = <<>> THEN devs
    ELSE ScanEntriesFrom(PutReport(devs, Head(reports)), Tail(reports))

ScanEntries(reports) == ScanEntriesFrom(<<>>, reports)

\* a report that carries the target name in two fields
ReportD ==
    [addr |-> "D", addrType |-> "public",
     fields |-> << <<9, "Complete Local Name", target_name>>,
                   <<9, "Complete Local Name", target_name>> >>]

\* a device that sends that report twice within the scan window
DevD == Head(ScanEntries(<<ReportD, ReportD>>))

\* the device lists Scanner.scan(10.0) may return
ScanInputs ==
    { <<>>, <<DevX>>, <<DevS>>, <<DevA>>, <<DevA, DevB>>, <<DevX, DevA>>,
      <<DevD>> }

\* the values a read of the characteristic may return
ReadValues ==
    {PGood, PGoodB, PShort, PLong, PNoNL, PNull, PNullGood, PEmpty, PNoLabel}

\* the outcome of one characteristic read: a value, or a BTLEException
ReadOutcomes ==
    [raised : {FALSE}, value : ReadValues] \cup
    {[raised |-> TRUE, value |-> PEmpty]}

NoRead == [raised |-> TRUE, value |-> PEmpty]

\* What one device answers during one read_characteristics call:
\*   connect  - whether Peripheral(...) succeeds
\*   chars_ok - whether getCharacteristics() succeeds
\*   nchars   - the length of the characteristic table
\*   readable - whether characteristics[6].supportsRead()
\*   read1    - the outcome of the read on line 91
\*   read2    - the outcome of the read on line 93
DeviceIOs ==
    {[connect |-> FALSE, chars_ok |-> FALSE, nchars |-> 0, readable |-> FALSE,
      read1 |-> NoRead, read2 |-> NoRead]} \cup
    {[connect |-> TRUE, chars_ok |-> FALSE, nchars |-> 0, readable |-> FALSE,
      read1 |-> NoRead, read2 |-> NoRead]} \cup
    {[connect |-> TRUE, chars_ok |-> TRUE, nchars |-> k, readable |-> FALSE,
      read1 |-> NoRead, read2 |-> NoRead] : k \in {0, 3, CharIndex + 1}} \cup
    {[connect |-> TRUE, chars_ok |-> TRUE, nchars |-> CharIndex + 1,
      readable |-> TRUE, read1 |-> r1, read2 |-> NoRead] :
        r1 \in {r \in ReadOutcomes : r.raised \/ r.value \in {PNull, PEmpty}}} \cup
    {[connect |-> TRUE, chars_ok |-> TRUE, nchars |-> CharIndex + 1,
      readable |-> TRUE, read1 |-> r1, read2 |-> r2] :
        r1 \in {r \in ReadOutcomes : ~r.raised /\ r.value \in {PGood, PGoodB}},
        r2 \in ReadOutcomes}

\* the outcome of one requests.post: a response with a status code, or an
\* exception
RelayOutcomes ==
    {[raised |-> FALSE, status |-> StatusOK],
     [raised |-> FALSE, status |-> 500],
     [raised |-> TRUE, status |-> 0]}

\* the host metrics and the geolocation, sampled by external collaborators
HostMetrics ==
    [cpuUsage |-> "cpu_percent", memoryUsage |-> "virtual_memory",
     latitude |-> "latitude", longitude |-> "longitude",
     temperatureC |-> "cpu_temperature"]


\* ------------------------------------------------------------------------
\* TachyonBleDriver
\* ------------------------------------------------------------------------

\* the loop of lines 61-64 with the test of desc left out
RECURSIVE MatchingFields_anyDesc(_, _, _)
MatchingFields_anyDesc(dev, data, name) ==
    IF data = <<>> THEN <<>>
    ELSE LET value == Head(data)[3]
         IN  (IF value = name
              THEN << <<dev.addr, dev.addrType>> >>
              ELSE <<>>) \o MatchingFields_anyDesc(dev, Tail(data), name)

\* scan_for_devices, lines 61-64: the handles one device contributes, one
\* per advertisement field that matches
RECURSIVE MatchingFields(_, _, _)
MatchingFields(dev, data, name) ==
    IF data = <<>> THEN <<>>
    ELSE LET desc  == Head(data)[2]
             value == Head(data)[3]
         IN  (IF desc = "Complete Local Name" /\ value = name
              THEN << <<dev.addr, dev.addrType>> >>
              ELSE <<>>) \o MatchingFields(dev, Tail(data), name)

\* scan_for_devices, lines 59-64: the loop over the scanned devices
RECURSIVE FoundIn(_, _)
FoundIn(devs, name) ==
    IF devs = <<>> THEN <<>>
    ELSE MatchingFields(Head(devs), Head(devs).scanData, name)
         \o FoundIn(Tail(devs), name)

\* scan_for_devices without the except clause of lines 56-58: the devices
\* seen before the disconnect error are kept
scan_for_devices_failopen(name, devs, disconnect_error) ==
    FoundIn(devs, name)

\* scan_for_devices that keeps the first device found when the scan is cut
\* short by a disconnect error
scan_for_devices_partial(name, devs, disconnect_error) ==
    LET found == FoundIn(devs, name)
    IN  IF disconnect_error /\ found # <<>> THEN <<Head(found)>> ELSE found

\* scan_for_devices(target_name): devs is what scanner.scan returns and
\* disconnect_error tells whether it raises BTLEDisconnectError instead
scan_for_devices(name, devs, disconnect_error) ==
    IF disconnect_error THEN <<>> ELSE FoundIn(devs, name)

\* read_characteristics without the finally clause
finally_disconnect_absent(d) == d

\* read_characteristics, lines 107-108: the finally clause releases the
\* connection; d counts the disconnect calls made so far
finally_disconnect(d) == d + 1

\* read_characteristics, lines 85-104: the inner try block.
\*   ret  - the returned value (None when the block falls through)
\*   exc  - the exception that leaves the function, "none" when there is none
\*   disc - the calls of device.disconnect() made inside the block
\*   path - the place where the block ends
TryBody(target_address, io) ==
    IF ~io.chars_ok
    THEN [ret |-> None, exc |-> "none", disc |-> 0, path |-> "chars_raised"]
    ELSE IF io.nchars = 0
    THEN [ret |-> None, exc |-> "none", disc |-> 0, path |-> "no_chars"]
    ELSE IF io.nchars <= CharIndex
    THEN [ret |-> None, exc |-> "IndexError", disc |-> 0,
          path |-> "no_char6"]
    ELSE IF ~io.readable
    THEN [ret |-> None, exc |-> "none", disc |-> 1, path |-> "not_readable"]
    ELSE IF io.read1.raised
    THEN [ret |-> None, exc |-> "none", disc |-> 0, path |-> "read_raised"]
    ELSE IF io.read1.value = <<>>
    THEN [ret |-> None, exc |-> "IndexError", disc |-> 0,
          path |-> "empty_value"]
    ELSE IF io.read1.value[1] = "NUL"
    THEN [ret |-> None, exc |-> "none", disc |-> 1, path |-> "null_data"]
    ELSE IF io.read2.raised
    THEN [ret |-> None, exc |-> "none", disc |-> 0, path |-> "read_raised"]
    ELSE LET ext_list == extract_values(SlicePayload(io.read2.value))
         IN  IF Len(ext_list) < 4
             THEN [ret |-> None, exc |-> "IndexError", disc |-> 0,
                   path |-> "few_tokens"]
             ELSE [ret |-> <<target_address, ext_list[1], ext_list[2],
                             ext_list[3], ext_list[4]>>,
                   exc |-> "none", disc |-> 0, path |-> "returned"]

\* read_characteristics(target_address, address_type): opened tells whether
\* Peripheral(...) gave a connection, disc counts the disconnect calls
read_characteristics(target_address, address_type, io) ==
    IF ~io.connect
    THEN [ret |-> None, exc |-> "none", opened |-> FALSE, disc |-> 0,
          path |-> "connect_failed"]
    ELSE LET body == TryBody(target_address, io)
         IN  [ret |-> body.ret, exc |-> body.exc, opened |-> TRUE,
              disc |-> finally_disconnect(body.disc), path |-> body.path]

\* ------------------------------------------------------------------------
\* The relay
\* ------------------------------------------------------------------------

\* make_post_api_call without the except clause of lines 168-169: an
\* exception of requests.post leaves the function
make_post_api_call_uncaught(log, node, api_url, payload, outcome) ==
    [log |-> Append(log, [node |-> node, url |-> api_url,
                          payload |-> payload, outcome |-> outcome]),
     exc |-> IF outcome.raised THEN "RequestException" ELSE "none"]

\* make_post_api_call that posts a second time after a failure
make_post_api_call_retry(log, node, api_url, payload, outcome) ==
    LET entry == [node |-> node, url |-> api_url, payload |-> payload,
                  outcome |-> outcome]
    IN  [log |-> IF outcome.raised \/ outcome.status # StatusOK
                 THEN Append(Append(log, entry), entry)
                 ELSE Append(log, entry),
         exc |-> "none"]

\* make_post_api_call(api_url, payload): log is the sequence of requests
\* sent so far, node the index of the loop of run() the call is made for.
\* Every exception of requests.post is caught, so exc is always "none".
make_post_api_call(log, node, api_url, payload, outcome) ==
    [log |-> Append(log, [node |-> node, url |-> api_url,
                          payload |-> payload, outcome |-> outcome]),
     exc |-> "none"]

\* the environment record with the indices of humidity and pressure swapped
env_api_payload_swapped(reading) ==
    [deviceId |-> "1", humidity |-> reading[3], temperature |-> reading[2],
     pressure |-> reading[4], gas |-> reading[5], location |-> "",
     region |-> ""]

\* run(), lines 217-225
env_api_payload(reading) ==
    [deviceId |-> "1", humidity |-> reading[4], temperature |-> reading[2],
     pressure |-> reading[3], gas |-> reading[5], location |-> "",
     region |-> ""]

\* run(), lines 227-234
dev_api_payload ==
    [deviceId |-> "1", cpuUsage |-> HostMetrics.cpuUsage,
     memoryUsage |-> HostMetrics.memoryUsage,
     latitude |-> HostMetrics.latitude, longitude |-> HostMetrics.longitude,
     temperatureC |-> HostMetrics.temperatureC]

\* run(), line 206: the condition of the polling loop
LoopCondition(found) == found # <<>>

\* whether a relay outcome is a failure: another status than 200, or an
\* exception
RelayFailed(outcome) == outcome.raised \/ outcome.status # StatusOK


\* ------------------------------------------------------------------------
\* run(): the state
\* ------------------------------------------------------------------------

VARIABLES
    pc,             \* where run() is: "scan", "loop", "collect", "relay",
                    \* "sleep", "done" (run returned), "crashed" (an
                    \* exception left run)
    exc,            \* the exception that left run(), "none" while running
    scanned,        \* the devices the last Scanner.scan returned
    scan_error,     \* whether the last scan raised BTLEDisconnectError
    scans,          \* the number of calls of scan_for_devices so far
    found_devices,  \* run(): found_devices
    cycle,          \* the number of iterations of the polling loop begun
    devices_len,    \* run(): devices_len
    ret_list,       \* get_data_from_devices: ret_list
    ios,            \* for each device attempted in this batch, what the
                    \* device answered to its read_characteristics call
    session,        \* the connection bookkeeping of the last
                    \* read_characteristics call
    conns,          \* the device connections: how many are open now and
                    \* the most that were ever open at once
    got_data,       \* run(): got_data
    n,              \* run(): the index of the for loop
    pkt_cnt,        \* run(): pkt_cnt
    posts,          \* the requests sent in this iteration of the loop
    relay_failures, \* the number of relay deliveries that failed so far
    ppc,            \* the parser on its own: "idle" while run() is modelled,
                    \* else "format", "read", "done"
    tokens,         \* the four tokens a device formats, and whether it pads
                    \* them with spaces
    raw,            \* the value the device then serves for characteristic 6
    parsed          \* what read_characteristics made of that value

\* the variables of the parser on its own
pvars == <<ppc, tokens, raw, parsed>>

vars ==
    <<pc, exc, scanned, scan_error, scans, found_devices, cycle, devices_len,
      ret_list, ios, session, conns, got_data, n, pkt_cnt, posts,
      relay_failures, ppc, tokens, raw, parsed>>

NoSession == [opened |-> FALSE, disc |-> 0, calls |-> 0]

RunInit ==
    /\ pc = "scan"
    /\ exc = "none"
    /\ scanned = <<>>
    /\ scan_error = FALSE
    /\ scans = 0
    /\ found_devices = <<>>
    /\ cycle = 0
    /\ devices_len = 0
    /\ ret_list = <<>>
    /\ ios = <<>>
    /\ session = NoSession
    /\ conns = [open |-> 0, peak |-> 0]
    /\ got_data = <<>>
    /\ n = 0
    /\ pkt_cnt = 0
    /\ posts = <<>>
    /\ relay_failures = 0

NoTokens == [t |-> <<>>, p |-> <<>>, h |-> <<>>, g |-> <<>>, pad |-> FALSE]

NotParsed == [ret |-> None, exc |-> "none"]

\* the start of run(); the parser on its own is idle
Init ==
    /\ RunInit
    /\ ppc = "idle"
    /\ tokens = NoTokens
    /\ raw = <<>>
    /\ parsed = NotParsed

\* run(), lines 201-205: the scan made before the polling loop
Scan ==
    /\ pc = "scan"
    /\ \E devs \in ScanInputs, disconnect_error \in BOOLEAN :
          /\ scanned' = devs
          /\ scan_error' = disconnect_error
          /\ found_devices' = scan_for_devices(target_name, devs,
                                               disconnect_error)
    /\ scans' = scans + 1
    /\ pkt_cnt' = 0
    /\ pc' = "loop"
    /\ UNCHANGED conns
    /\ UNCHANGED pvars
    /\ UNCHANGED <<exc, cycle, devices_len, ret_list, ios, session,
                   got_data, n, posts, relay_failures>>

\* run(), lines 206-210: the loop condition holds, an iteration begins and
\* get_data_from_devices is called (line 123: ret_list = [])
LoopEnter ==
    /\ pc = "loop"
    /\ LoopCondition(found_devices)
    /\ cycle' = cycle + 1
    /\ devices_len' = Len(found_devices)
    /\ ret_list' = <<>>
    /\ ios' = <<>>
    /\ posts' = <<>>
    /\ pc' = "collect"
    /\ UNCHANGED conns
    /\ UNCHANGED pvars
    /\ UNCHANGED <<exc, scanned, scan_error, scans, found_devices, session,
                   got_data, n, pkt_cnt, relay_failures>>

\* run(), line 206: the loop condition fails and run() returns
LoopExit ==
    /\ pc = "loop"
    /\ ~LoopCondition(found_devices)
    /\ pc' = "done"
    /\ UNCHANGED conns
    /\ UNCHANGED pvars
    /\ UNCHANGED <<exc, scanned, scan_error, scans, found_devices, cycle,
                   devices_len, ret_list, ios, session, got_data, n,
                   pkt_cnt, posts, relay_failures>>

\* read_characteristics that returns with the connection it opened
\* still open: the disconnect calls released nothing
Connections_leak(c, r) ==
    IF ~r.opened THEN c
    ELSE [open |-> c.open + 1,
          peak |-> IF c.open + 1 > c.peak THEN c.open + 1 ELSE c.peak]

\* read_characteristics, lines 82-108: the connections after a call that
\* started with c.  Peripheral(...) opens one; the first device.disconnect()
\* releases it, a second call on the same Peripheral releases nothing.
Connections(c, r) ==
    IF ~r.opened THEN c
    ELSE [open |-> c.open + 1 - (IF r.disc >= 1 THEN 1 ELSE 0),
          peak |-> IF c.open + 1 > c.peak THEN c.open + 1 ELSE c.peak]

\* get_data_from_devices, lines 124-126: one iteration of the loop over
\* found_devices, with the whole read_characteristics call; after the last
\* device the list is returned to run() (line 210).  An exception that
\* read_characteristics lets out leaves get_data_from_devices and run().
ReadDevice ==
    /\ pc = "collect"
    /\ Len(ret_list) < Len(found_devices)
    /\ \E io \in DeviceIOs :
          LET handle == found_devices[Len(ret_list) + 1]
              r      == read_characteristics(handle[1], handle[2], io)
          IN  /\ session' = [opened |-> r.opened, disc |-> r.disc,
                             calls |-> session.calls + 1]
              /\ conns' = Connections(conns, r)
              /\ ios' = Append(ios, io)
              /\ IF r.exc # "none"
                 THEN /\ pc' = "crashed"
                      /\ exc' = r.exc
                      /\ UNCHANGED <<ret_list, got_data, n>>
                 ELSE /\ ret_list' = Append(ret_list, r.ret)
                      /\ exc' = exc
                      /\ IF Len(ret_list') = Len(found_devices)
                         THEN /\ got_data' = ret_list'
                              /\ n' = 0
                              /\ pc' = "relay"
                         ELSE /\ pc' = "collect"
                              /\ UNCHANGED <<got_data, n>>
    /\ UNCHANGED pvars
    /\ UNCHANGED <<scanned, scan_error, scans, found_devices, cycle,
                   devices_len, pkt_cnt, posts, relay_failures>>

\* run(), line 212: the for loop moves to the next index, or ends and the
\* iteration reaches time.sleep(90)
AfterNode == IF n + 1 < devices_len THEN "relay" ELSE "sleep"

\* run(), lines 213-241: got_data[n] is a reading; both records are built
\* and posted
RelayNode ==
    /\ pc = "relay"
    /\ n < devices_len
    /\ got_data[n + 1] # None
    /\ \E o1 \in RelayOutcomes, o2 \in RelayOutcomes :
          LET failed == (IF RelayFailed(o1) THEN 1 ELSE 0)
                        + (IF RelayFailed(o2) THEN 1 ELSE 0)
              r1 == make_post_api_call(posts, n, env_api_url,
                                       env_api_payload(got_data[n + 1]), o1)
              r2 == make_post_api_call(r1.log, n, dev_api_url,
                                       dev_api_payload, o2)
          IN  /\ relay_failures + failed <= MaxRelayFailures
              /\ relay_failures' = relay_failures + failed
              /\ IF r1.exc # "none"
                 THEN /\ posts' = r1.log
                      /\ exc' = r1.exc
                      /\ pc' = "crashed"
                      /\ n' = n
                 ELSE IF r2.exc # "none"
                 THEN /\ posts' = r2.log
                      /\ exc' = r2.exc
                      /\ pc' = "crashed"
                      /\ n' = n
                 ELSE /\ posts' = r2.log
                      /\ exc' = exc
                      /\ pc' = AfterNode
                      /\ n' = n + 1
    /\ pkt_cnt' = pkt_cnt + 1
    /\ UNCHANGED conns
    /\ UNCHANGED pvars
    /\ UNCHANGED <<scanned, scan_error, scans, found_devices, cycle,
                   devices_len, ret_list, ios, session, got_data>>

\* run(), lines 213-215 and 242-243: got_data[n] is None, nothing is posted
SkipNode ==
    /\ pc = "relay"
    /\ n < devices_len
    /\ got_data[n + 1] = None
    /\ n' = n + 1
    /\ pc' = AfterNode
    /\ UNCHANGED conns
    /\ UNCHANGED pvars
    /\ UNCHANGED <<exc, scanned, scan_error, scans, found_devices, cycle,
                   devices_len, ret_list, ios, session, got_data, pkt_cnt,
                   posts, relay_failures>>

\* run(), line 244: time.sleep(90) ends and the loop condition is tested
\* again
Sleep ==
    /\ pc = "sleep"
    /\ cycle < MaxCycles
    /\ pc' = "loop"
    /\ UNCHANGED conns
    /\ UNCHANGED pvars
    /\ UNCHANGED <<exc, scanned, scan_error, scans, found_devices, cycle,
                   devices_len, ret_list, ios, session, got_data, n,
                   pkt_cnt, posts, relay_failures>>

Next ==
    \/ Scan
    \/ LoopEnter
    \/ LoopExit
    \/ ReadDevice
    \/ RelayNode
    \/ SkipNode
    \/ Sleep

Spec == Init /\ [][Next]_vars


\* ------------------------------------------------------------------------
\* The parser on its own: a device formats four tokens, the value is read
\* and parsed by read_characteristics
\* ------------------------------------------------------------------------

\* the characters of a decimal token
TokenChars == {"5", "."}

\* the tokens of at most MaxTokenLen characters
Tokens == UNION {[1..k -> TokenChars] : k \in 1..MaxTokenLen}

\* one field as the device writes it
Field(label, tok, pad) ==
    <<label, ":">> \o (IF pad THEN <<" ">> \o tok \o <<" ">> ELSE tok)
    \o <<";">>

\* the value "T:t;P:p;H:h;G:g;" followed by a newline
Wrap(tk) ==
    Field("T", tk.t, tk.pad) \o Field("P", tk.p, tk.pad)
    \o Field("H", tk.h, tk.pad) \o Field("G", tk.g, tk.pad) \o <<"NL">>

\* a device that connects, has a readable characteristic 6 and serves the
\* same value on both reads
ServingIO(value) ==
    [connect |-> TRUE, chars_ok |-> TRUE, nchars |-> CharIndex + 1,
     readable |-> TRUE, read1 |-> [raised |-> FALSE, value |-> value],
     read2 |-> [raised |-> FALSE, value |-> value]]

ParserInit ==
    /\ RunInit
    /\ ppc = "format"
    /\ tokens \in [t : Tokens, p : Tokens, h : Tokens, g : Tokens,
                    pad : BOOLEAN]
    /\ raw = <<>>
    /\ parsed = NotParsed

\* the device formats its four tokens
FormatPayload ==
    /\ ppc = "format"
    /\ raw' = Wrap(tokens)
    /\ ppc' = "read"
    /\ UNCHANGED <<tokens, parsed>>

\* read_characteristics, lines 90-101, on the formatted value
ParseValue ==
    /\ ppc = "read"
    /\ LET r == read_characteristics("A", "public", ServingIO(raw))
       IN  parsed' = [ret |-> r.ret, exc |-> r.exc]
    /\ ppc' = "done"
    /\ UNCHANGED <<tokens, raw>>

ParserNext ==
    \/ FormatPayload /\ UNCHANGED <<pc, exc, scanned, scan_error, scans,
                                     found_devices, cycle, devices_len,
                                     ret_list, ios, session, conns, got_data,
                                     n, pkt_cnt, posts, relay_failures>>
    \/ ParseValue /\ UNCHANGED <<pc, exc, scanned, scan_error, scans,
                                  found_devices, cycle, devices_len,
                                  ret_list, ios, session, conns, got_data,
                                  n, pkt_cnt, posts, relay_failures>>

ParserSpec == ParserInit /\ [][ParserNext]_vars

\* ------------------------------------------------------------------------
\* Properties
\* ------------------------------------------------------------------------

\* the path the read_characteristics call of the i-th device of this batch
\* took
PathOf(i) ==
    read_characteristics(found_devices[i][1], found_devices[i][2],
                         ios[i]).path

\* the positions of the requests of this iteration made for node k
PostsOf(k) == {i \in 1..Len(posts) : posts[i].node = k}

\* the number of readings among the first k entries of got_data
RECURSIVE Readings(_)
Readings(k) ==
    IF k = 0 THEN 0
    ELSE Readings(k - 1) + (IF got_data[k] # None THEN 1 ELSE 0)

\* C1: in every read_characteristics call that opened a connection,
\* device.disconnect() is called exactly once, whatever the exit path.
C1_ReleasedExactlyOnce ==
    (session.calls > 0 /\ session.opened) => session.disc = 1

\* C2: every device attempted in a batch has an entry in the result, in
\* input order; the entry is None exactly when the device failed (connect
\* failure, transport error, malformed payload), and the batch goes on.
C2_BatchIndependence ==
    \A i \in 1..Len(ios) :
        PathOf(i) \in {"connect_failed", "chars_raised", "read_raised",
                       "few_tokens", "returned"}
        => /\ i <= Len(ret_list)
           /\ (ret_list[i] = None) <=> (PathOf(i) # "returned")

\* C3: a device whose payload fails to parse does not end run(): no
\* exception leaves the batch collection.
C3_FailuresContained ==
    (ios # <<>> /\ PathOf(Len(ios)) = "few_tokens")
    => (pc # "crashed" /\ exc = "none")

\* C4: when the scan yields no device the polling loop does not end: run()
\* never returns.
C4_EmptyScanKeepsPolling ==
    (scans > 0 /\ found_devices = <<>>) => pc # "done"

\* C5: the handles read in iteration c of the loop come from a scan made
\* in iteration c: there have been as many scans as iterations.
C5_ScanEveryCycle ==
    pc = "collect" => scans = cycle

\* C6: after a scan that returned nothing (no device with the target name,
\* or a disconnect error of the radio) no request is posted.
C6_EmptyScanNoRelay ==
    (scans > 0 /\ (found_devices = <<>> \/ scan_error))
    => (posts = <<>> /\ pc \notin {"collect", "relay", "sleep"})

C6_Witness ==
    /\ pc = "done"
    /\ scans = 1
    /\ found_devices = <<>>
    /\ scanned = <<DevX>>

\* C7: a failed relay delivery never ends run() and never skips a later
\* delivery: no exception of the relay leaves run(), while the for loop runs
\* two requests have been sent for every reading among the nodes already
\* handled, and at the sleep that holds for all nodes of the iteration.
C7_RelayFailureIsolated ==
    /\ exc # "RequestException"
    /\ pc = "relay" => Len(posts) = 2 * Readings(n)
    /\ pc = "sleep" => Len(posts) = 2 * Readings(devices_len)

\* the first delivery of node 0 failed in iteration 1 and again in
\* iteration 2, and node 1 was still relayed in iteration 2
C7_Witness ==
    /\ pc = "sleep"
    /\ cycle = 2
    /\ relay_failures = 2
    /\ Len(posts) = 4
    /\ posts[1].node = 0
    /\ posts[1].outcome.raised
    /\ \A i \in 2..4 : posts[i].outcome.status = StatusOK
    /\ PostsOf(1) = {3, 4}

\* the cycle of the end-to-end scenario: the scan gave [A, B], both reads of
\* A returned the well-formed payload, the read of B raised
C8_Scenario ==
    /\ pc = "sleep"
    /\ found_devices = << <<"A", "public">>, <<"B", "random">> >>
    /\ Len(ios) = 2
    /\ ios[1].connect /\ ios[1].chars_ok /\ ios[1].readable
    /\ ~ios[1].read1.raised /\ ios[1].read1.value = PGood
    /\ ~ios[1].read2.raised /\ ios[1].read2.value = PGood
    /\ ios[2].connect /\ ios[2].chars_ok /\ ios[2].readable
    /\ ios[2].read1.raised

C8_ReadingA ==
    <<"A", <<"2", "4", ".", "5">>, <<"1", "0", "1", "3">>, <<"6", "0">>,
      <<"1", "2", "0">> >>

\* C8 as stated: in the scenario the result is [reading of A, None] and
\* exactly one relay call is made, for A.
C8_OneRelayCall ==
    C8_Scenario =>
        /\ got_data = <<C8_ReadingA, None>>
        /\ Cardinality(PostsOf(0)) = 1
        /\ PostsOf(1) = {}

\* C8, amended: in the scenario the result is [reading of A, None]; for A
\* one request goes to each endpoint (the environment record with A's four
\* values, then the device-health record), and none is made for B.
C8_OneRelayPerEndpoint ==
    C8_Scenario =>
        /\ got_data = <<C8_ReadingA, None>>
        /\ Len(posts) = 2
        /\ posts[1].node = 0 /\ posts[1].url = env_api_url
        /\ posts[1].payload.temperature = <<"2", "4", ".", "5">>
        /\ posts[1].payload.pressure = <<"1", "0", "1", "3">>
        /\ posts[1].payload.humidity = <<"6", "0">>
        /\ posts[1].payload.gas = <<"1", "2", "0">>
        /\ posts[2].node = 0 /\ posts[2].url = dev_api_url
        /\ PostsOf(1) = {}

C8_Witness ==
    /\ C8_Scenario
    /\ cycle = 1
    /\ got_data[2] = None
    /\ Len(posts) = 2

\* C9: when read_characteristics ends after opening a connection,
\* device.disconnect() has been called at least once, also when an
\* exception other than BTLEException leaves it.
C9_ReleasedOnExit ==
    (session.calls > 0 /\ session.opened) => session.disc >= 1

\* an IndexError left read_characteristics and the connection was released
C9_Witness ==
    /\ pc = "crashed"
    /\ exc = "IndexError"
    /\ session.opened
    /\ session.disc = 1

\* C10: a relay delivery is attempted at most once: in an iteration no node
\* has two requests to the same endpoint, and every request in it belongs to
\* a reading of this iteration (nothing is left over from an earlier one).
C10_DeliveredAtMostOnce ==
    /\ \A i, j \in 1..Len(posts) :
          (posts[i].node = posts[j].node /\ posts[i].url = posts[j].url)
          => i = j
    /\ \A i \in 1..Len(posts) :
          /\ posts[i].node < devices_len
          /\ got_data[posts[i].node + 1] # None
          /\ posts[i].url = env_api_url
             => posts[i].payload = env_api_payload(got_data[posts[i].node + 1])

\* a delivery failed in iteration 1, and iteration 2 sent only its own
\* requests, all delivered
C10_Witness ==
    /\ cycle = 2
    /\ pc = "sleep"
    /\ relay_failures > 0
    /\ posts # <<>>
    /\ \A i \in 1..Len(posts) : ~RelayFailed(posts[i].outcome)


\* C11: four decimal tokens formatted as "T:t;P:p;H:h;G:g;" and a newline
\* are parsed back to exactly [t, p, h, g], in that order, the spaces
\* around a token trimmed.
C11_RoundTrip ==
    ppc = "done" =>
        /\ parsed.exc = "none"
        /\ parsed.ret = <<"A", tokens.t, tokens.p, tokens.h, tokens.g>>

\* padded tokens of different lengths went through the parser
C11_Witness ==
    /\ ppc = "done"
    /\ tokens.pad
    /\ tokens.t = <<"5", ".">>
    /\ tokens.g = <<"5">>
    /\ parsed.ret[2] = <<"5", ".">>
    /\ parsed.ret[5] = <<"5">>


\* whether the label c: occurs in a value
HasLabel(value, c) ==
    \E i \in 1..(Len(value) - 1) : value[i] = c /\ value[i + 1] = ":"

\* the tokens extract_values finds in a value
TokensOf(value) == extract_values(SlicePayload(value))

\* whether the value of the i-th device of this batch reached the parser
WasParsed(i) == PathOf(i) \in {"returned", "few_tokens"}

\* C12: a payload that lacks one of the labels T:, P:, H:, G:, or that holds
\* fewer than four tokens, never gives a reading: the entry of its device
\* in the result is None.
C12_RejectsMalformed ==
    \A i \in 1..Len(ret_list) :
        (/\ WasParsed(i)
         /\ \/ \E c \in {"T", "P", "H", "G"} : ~HasLabel(ios[i].read2.value, c)
            \/ Len(TokensOf(ios[i].read2.value)) < 4)
        => ret_list[i] = None

\* C13: a reading is produced only from a payload with exactly four tokens.
C13_ExactlyFourTokens ==
    \A i \in 1..Len(ret_list) :
        ret_list[i] # None => Len(TokensOf(ios[i].read2.value)) = 4


\* C14: a scan that raised a disconnect error gives an empty list whatever
\* was in the air, and run() goes on as after a scan that found nothing: the
\* loop is not entered, nothing is read and nothing is posted.
C14_ScanFailsClosed ==
    (scans > 0 /\ scan_error) =>
        /\ found_devices = <<>>
        /\ pc \in {"loop", "done"}
        /\ cycle = 0 /\ ios = <<>> /\ posts = <<>> /\ session.calls = 0

\* the scan failed while two devices with the target name were in the air
C14_Witness ==
    /\ scan_error
    /\ scanned = <<DevA, DevB>>
    /\ found_devices = <<>>
    /\ pc = "done"

\* whether a scanned device carries the target name as its complete name
HasTargetName(dev) ==
    \E k \in 1..Len(dev.scanData) :
        /\ dev.scanData[k][2] = "Complete Local Name"
        /\ dev.scanData[k][3] = target_name

\* C15: after a scan without error a scanned device has a handle in
\* found_devices exactly when one of its fields is the complete local name
\* with the target name, and no address has two handles.
C15_FilterByName ==
    (scans > 0 /\ ~scan_error) =>
        /\ \A d \in 1..Len(scanned) :
              (\E k \in 1..Len(found_devices) :
                  found_devices[k] = <<scanned[d].addr, scanned[d].addrType>>)
              <=> HasTargetName(scanned[d])
        /\ \A i, j \in 1..Len(found_devices) :
              found_devices[i][1] = found_devices[j][1] => i = j

\* a device that sent its name twice has one handle
C15_Witness ==
    /\ scans = 1
    /\ ~scan_error
    /\ scanned = <<DevD>>
    /\ found_devices = << <<"D", "public">> >>


\* C16: the environment record posted for a reading carries as deviceId the
\* address of the device the reading came from.
C16_DeviceIdOfReading ==
    \A i \in 1..Len(posts) :
        posts[i].url = env_api_url
        => posts[i].payload.deviceId = got_data[posts[i].node + 1][1]

\* C17: the value that reaches the parser is the one whose first byte was
\* tested, so no reading is built from a value whose first byte is zero.
C17_NoReadingFromNullValue ==
    \A i \in 1..Len(ret_list) :
        ret_list[i] # None => ios[i].read2.value[1] # "NUL"


\* C18: every environment record posted belongs to a reading of this
\* iteration and carries the first, second, third and fourth token of that
\* device's payload as temperature, pressure, humidity and gas, with
\* location and region empty; among the nodes the for loop has handled,
\* exactly those with a reading have a record.
C18_RecordCarriesTokens ==
    /\ \A i \in 1..Len(posts) :
          posts[i].url = env_api_url =>
              LET k    == posts[i].node + 1
                  toks == TokensOf(ios[k].read2.value)
                  rec  == posts[i].payload
              IN  /\ got_data[k] # None
                  /\ rec.temperature = toks[1]
                  /\ rec.pressure = toks[2]
                  /\ rec.humidity = toks[3]
                  /\ rec.gas = toks[4]
                  /\ rec.location = ""
                  /\ rec.region = ""
    /\ pc \in {"relay", "sleep"} =>
          \A k \in 1..n :
              (got_data[k] # None) <=>
              (\E i \in 1..Len(posts) :
                  posts[i].node = k - 1 /\ posts[i].url = env_api_url)

\* B's reading was relayed with B's own values and A, which gave None, has
\* no record
C18_Witness ==
    /\ pc = "sleep"
    /\ Len(got_data) = 2
    /\ got_data[1] = None
    /\ ios[2].read2.value = PGoodB
    /\ Len(posts) = 2
    /\ posts[1].node = 1
    /\ posts[1].payload.humidity = <<"4", "1">>
    /\ posts[1].payload.pressure = <<"9", "9", "0">>


\* C19: never more than one device connection is open at once, and between
\* two read_characteristics calls, during the relay and during the delay
\* none is open.
C19_OneConnectionAtATime ==
    /\ conns.peak <= 1
    /\ conns.open = 0

\* two devices were connected one after the other in one batch
C19_Witness ==
    /\ pc = "sleep"
    /\ Len(ios) = 2
    /\ ios[1].connect /\ ios[2].connect
    /\ got_data[1] # None /\ got_data[2] # None
    /\ conns.peak = 1
    /\ conns.open = 0

\* C20: a value without a newline that reaches the parser never gives a
\* reading: the entry of its device in the result is None.
C20_NoNewlineRejected ==
    \A i \in 1..Len(ret_list) :
        (/\ WasParsed(i)
         /\ \A k \in 1..Len(ios[i].read2.value) :
               ios[i].read2.value[k] # "NL")
        => ret_list[i] = None

====
